---- MODULE Spec2Model ----
(***************************************************************************)
(* SHAKE-PRNG: the SHAKE sponge contexts of shake.go and the DRBG engine   *)
(* of prng.go (ShakePRNG: NewShakeDRBG, Generate, Reseed, Reset, Destroy). *)
(*                                                                         *)
(* Bytes are 0..255.  A 64-bit lane is a tuple of 8 base-256 digits, most  *)
(* significant first, so the little-endian conversions of xorIn/copyOut    *)
(* reverse the byte order.  A Go slice is a sequence of bytes (1-based).   *)
(***************************************************************************)
EXTENDS Integers, Sequences, FiniteSets, TLC

(***************************************************************************)
(* Byte arithmetic                                                         *)
(***************************************************************************)
RECURSIVE XorBits(_, _, _)
XorBits(a, b, n) ==
    IF n = 0 THEN 0
    ELSE ((a + b) % 2) + 2 * XorBits(a \div 2, b \div 2, n - 1)

XorNib == [a \in 0..15 |-> [b \in 0..15 |-> XorBits(a, b, 4)]]

\* x ^ y on bytes
Xor(a, b) == 16 * XorNib[a \div 16][b \div 16] + XorNib[a % 16][b % 16]

RECURSIVE AndBits(_, _)
\* x & y on non-negative ints
AndBits(a, b) ==
    IF a = 0 \/ b = 0 THEN 0
    ELSE ((a % 2) * (b % 2)) + 2 * AndBits(a \div 2, b \div 2)

RECURSIVE Pow2(_)
Pow2(n) == IF n = 0 THEN 1 ELSE 2 * Pow2(n - 1)

\* math/bits.RotateLeft8: s := uint(k) & 7; x<<s | x>>(8-s)  (k < 0 rotates right)
RotateLeft8(x, k) ==
    LET s == k % 8
    IN  ((x * Pow2(s)) % 256) + (x \div Pow2(8 - s))

\* the sequence f with every element evaluated
Tup(f) == f \o <<>>

\* make([]byte, n)
Zeros(n) == Tup([i \in 1..n |-> 0])

RECURSIVE XorRange(_, _, _)
\* XOR of buf[lo..hi]
XorRange(buf, lo, hi) ==
    IF lo > hi THEN 0
    ELSE IF lo = hi THEN buf[lo]
    ELSE LET mid == (lo + hi) \div 2
         IN  Xor(XorRange(buf, lo, mid), XorRange(buf, mid + 1, hi))

(***************************************************************************)
(* Program constants                                                       *)
(***************************************************************************)
\* shake.go: rate128, rate256, dsbyteShake (0x1f)
rate128 == 168
rate256 == 136
dsbyteShake == 31

\* prng.go: nClear, RecommendedKMAC128KeyTagSize, RecommendedKMAC256KeyTagSize
nClear == 25
RecommendedKMAC128KeyTagSize == 32
RecommendedKMAC256KeyTagSize == 64

\* prng.go has MaxInputLength = 1 << 32 and ReseedInterval = 1 << 48.  The
\* shifts are scaled down so that buffers of the limit length and a counter
\* past the interval are reached by running the operations themselves; the
\* code only ever compares a length or the counter with them.
MaxInputLengthShift == 8
ReseedIntervalShift == 0
MaxInputLength == Pow2(MaxInputLengthShift)
ReseedInterval == Pow2(ReseedIntervalShift)

(***************************************************************************)
(* Sponge state (type state: lanes a, buffer buf, direction, rate, dsbyte) *)
(***************************************************************************)
NumLanes == 25

\* a holds the 25 lanes as 200 digits: digit k (1..8, most significant
\* first) of lane i (0-based) is a[8*i + k].
\* The 1600-bit permutation is an opaque primitive; any fixed bijection of
\* the lane array stands for it: three rounds (L, R) -> (R, L + F(R)) over
\* the two halves of the digits.
Round(x) ==
    LET h == Len(x) \div 2
    IN  Tup([j \in 1..Len(x) |->
                IF j <= h THEN x[j + h]
                ELSE (x[j - h] + 3 * x[h + ((7 * (j - h)) % h) + 1] + j) % 256])

keccakF1600(a) == Round(Round(Round(a)))

\* binary.LittleEndian.Uint64(buf[8*i:]): digit k of the word is byte 8-k
\* of the 8 bytes
LittleEndianUint64(buf, i, k) == buf[8 * i + 9 - k]

\* xorIn: d.a[i] ^= LittleEndian.Uint64(buf[8*i:]) for i < len(buf)/8
xorIn(a, buf) ==
    LET n == Len(buf) \div 8
    IN  Tup([m \in 1..(8 * NumLanes) |->
                LET i == (m - 1) \div 8
                    k == ((m - 1) % 8) + 1
                IN  IF i < n THEN Xor(a[m], LittleEndianUint64(buf, i, k))
                    ELSE a[m]])

\* copyOut: binary.LittleEndian.PutUint64(b[8*i:], d.a[i]) while 8 bytes
\* remain: byte p of the 8 is digit 8-p of the lane
copyOut(a, n) ==
    Tup([m \in 1..(8 * (n \div 8)) |->
            a[8 * ((m - 1) \div 8) + 8 - ((m - 1) % 8)]])

ZeroLanes == Zeros(8 * NumLanes)

\* NewShake128 / NewShake256: &state{rate: r, dsbyte: dsbyteShake}.
\* hist (bytes absorbed since the last reset) and perms (permutations run
\* since the last reset) are history fields, read by no operation.
NewState(r, ds) ==
    [a |-> ZeroLanes, buf |-> <<>>, dir |-> "absorbing", rate |-> r,
     dsbyte |-> ds, hist |-> <<>>, perms |-> 0]

NewShake128 == NewState(rate128, dsbyteShake)
NewShake256 == NewState(rate256, dsbyteShake)

\* state.Reset: zero the lanes, back to absorbing, empty buffer
StateReset(c) == NewState(c.rate, c.dsbyte)

\* a clone that shares the original's direction once it has been read
CloneSqueezed(c) == [c EXCEPT !.dir = "squeezing"]

\* state.clone / Clone: an independent copy (a value, here)
Clone(c) == c

RECURSIVE AbsorbBlocks(_, _, _, _)
\* absorb every whole rate block of data into lanes a, n counting the
\* permutations: [a, rest, n]
AbsorbBlocks(a, data, rate, n) ==
    IF Len(data) < rate THEN [a |-> a, rest |-> data, n |-> n]
    ELSE AbsorbBlocks(keccakF1600(xorIn(a, SubSeq(data, 1, rate))),
                      SubSeq(data, rate + 1, Len(data)), rate, n + 1)

\* the context after Write has absorbed p, r being the result of AbsorbBlocks
Absorbed(c, p, r) ==
    [ok |-> TRUE,
     c  |-> [c EXCEPT !.a = r.a, !.buf = r.rest, !.hist = c.hist \o p,
                      !.perms = c.perms + r.n]]

\* state.Write: absorb p; fails on a context that has been read from
Write(c, p) ==
    IF c.dir # "absorbing" THEN [ok |-> FALSE, c |-> c]
    ELSE Absorbed(c, p, AbsorbBlocks(c.a, c.buf \o p, c.rate, 0))

\* the context once its lanes a2 are ready for reading: a block copied out
Squeezing(c, a2) ==
    [c EXCEPT !.a = a2, !.buf = copyOut(a2, c.rate), !.dir = "squeezing",
              !.perms = c.perms + 1]

\* the last block of the absorbing phase: buffer, dsbyte, zeros, final 0x80
PadBlock(c) ==
    Tup([i \in 1..c.rate |->
            IF i = c.rate
            THEN Xor(IF i <= Len(c.buf) THEN c.buf[i]
                     ELSE IF i = Len(c.buf) + 1 THEN c.dsbyte ELSE 0, 128)
            ELSE IF i <= Len(c.buf) THEN c.buf[i]
            ELSE IF i = Len(c.buf) + 1 THEN c.dsbyte ELSE 0])

\* state.padAndPermute: pad, permute, switch to squeezing
padAndPermute(c) == Squeezing(c, keccakF1600(xorIn(c.a, PadBlock(c))))

RECURSIVE ReadLoop(_, _, _)
\* the copy loop of state.Read: permute whenever the block is used up
ReadLoop(c, n, acc) ==
    IF n = 0 THEN [c |-> c, out |-> acc]
    ELSE IF n < Len(c.buf)
         THEN [c   |-> [c EXCEPT !.buf = SubSeq(c.buf, n + 1, Len(c.buf))],
               out |-> acc \o SubSeq(c.buf, 1, n)]
         ELSE ReadLoop(Squeezing(c, keccakF1600(c.a)), n - Len(c.buf),
                       acc \o c.buf)

\* state.Read: squeeze n bytes; [c, out]
Read(c, n) ==
    ReadLoop(IF c.dir = "absorbing" THEN padAndPermute(c) ELSE c, n, <<>>)

(***************************************************************************)
(* cSHAKE (type cshakeState: the sponge state and initBlock)               *)
(***************************************************************************)
dsbyteCShake == 4

\* binary.BigEndian.PutUint64(b[1:], value): the 8 bytes, most significant
\* first; the values that occur are below 2^31, so the first four are 0
PutUint64(value) ==
    Tup([k \in 1..8 |->
            IF k <= 4 THEN 0 ELSE (value \div Pow2(8 * (8 - k))) % 256])

\* the index i at which leftEncode's loop "for i < 8 && b[i] == 0" stops,
\* b[1..8] being the 8 bytes
FirstKept(b) ==
    CHOOSE i \in 1..8 : (i = 8 \/ b[i] # 0) /\ \A j \in 1..(i - 1) : b[j] = 0

\* leftEncode cut at i: the count 9 - i, then bytes i..8
leftEncodeFrom(b, i) == <<9 - i>> \o SubSeq(b, i, 8)

\* leftEncode: the bytes of value without leading zeros (at least one),
\* preceded by their number
leftEncode(value) == leftEncodeFrom(PutUint64(value), FirstKept(PutUint64(value)))

\* bytepad once buf = leftEncode(w) || input: padlen := w - (len(buf) % w)
bytepadded(buf, w) == buf \o Zeros(w - (Len(buf) % w))

\* bytepad
bytepad(input, w) == bytepadded(leftEncode(w) \o input, w)

\* the initBlock of newCShake: leftEncode(len(N)*8) || N ||
\* leftEncode(len(S)*8) || S
InitBlock(N, S) ==
    leftEncode(Len(N) * 8) \o N \o leftEncode(Len(S) * 8) \o S

\* a cshakeState of sponge state st after c.Write(bytepad(c.initBlock, c.rate))
cshakeStarted(st, initBlock) ==
    [state |-> Write(st, bytepad(initBlock, st.rate)).c, initBlock |-> initBlock]

\* newCShake
newCShake(N, S, rate, dsbyte) ==
    cshakeStarted(NewState(rate, dsbyte), InitBlock(N, S))

\* cshakeState.Reset: c.state.Reset(); c.Write(bytepad(c.initBlock, c.rate))
cshakeReset(c) == cshakeStarted(StateReset(c.state), c.initBlock)

(***************************************************************************)
(* DRBG engine (type ShakePRNG: c, rate, seedLen, counter, nw)             *)
(***************************************************************************)
\* a nil ShakeHash interface value
Nil == [dir |-> "nil"]

\* ShakePRNG.gen10x01Pad: buf[0] = 0x1f; buf[n-1] ^= 0x80
gen10x01Pad(n) ==
    IF n <= 0 THEN <<>>
    ELSE Tup([i \in 1..n |->
                 IF i = n THEN Xor(IF i = 1 THEN dsbyteShake ELSE 0, 128)
                 ELSE IF i = 1 THEN dsbyteShake ELSE 0])

\* ShakePRNG.getStartFrom: XOR of buf, plus byte(nw+1), rotated by +-nw
getStartFrom(s, buf) ==
    RotateLeft8((XorRange(buf, 1, Len(buf)) + ((s.nw + 1) % 256)) % 256,
                IF AndBits(s.nw, 42330) # 0 THEN 0 - s.nw ELSE s.nw)

\* writeWithPad clearing nw where it should count
writeWithPadDoneClearsNw(s, c, w1, w2) ==
    IF ~w1.ok THEN [st |-> "err", c |-> StateReset(c), nw |-> s.nw]
    ELSE IF ~w2.ok THEN [st |-> "err", c |-> StateReset(w1.c), nw |-> s.nw]
    ELSE [st |-> "ok", c |-> w2.c, nw |-> 0]

\* writeWithPad after its two Writes, w1 of the pre-padded data and w2 of
\* the post-pad: a failed Write resets the context, success counts in nw
writeWithPadDone(s, c, w1, w2) ==
    IF ~w1.ok THEN [st |-> "err", c |-> StateReset(c), nw |-> s.nw]
    ELSE IF ~w2.ok THEN [st |-> "err", c |-> StateReset(w1.c), nw |-> s.nw]
    ELSE [st |-> "ok", c |-> w2.c, nw |-> s.nw + 1]

\* writeWithPad without its post-pad
writePostPadNone(s, c, buf, w1) == writeWithPadDone(s, c, w1, w1)

\* the post-pad of writeWithPad: zeros up to the next multiple of s.rate
writePostPad(s, c, buf, w1) ==
    writeWithPadDone(s, c, w1,
        IF w1.ok THEN Write(w1.c, Zeros(s.rate - (Len(buf) % s.rate))) ELSE w1)

\* the pre-padded data of writeWithPad: offset zero bytes, then p
writePrePadded(s, c, buf) == writePostPad(s, c, buf, Write(c, buf))

\* ShakePRNG.writeWithPad on context c: [st, c, nw]; st is "ok", "err"
\* (a Write failed and c was reset) or "panic" (Write on a nil interface)
writeWithPad(s, c, p, start) ==
    IF Len(p) = 0 THEN [st |-> "ok", c |-> c, nw |-> s.nw]
    ELSE IF c = Nil THEN [st |-> "panic", c |-> c, nw |-> s.nw]
    ELSE writePrePadded(s, c, Zeros(start) \o p)

RECURSIVE MaskSum(_, _, _, _, _)
\* the inner loop of createMask for position i (0-based), from step j
MaskSum(tmp, l, i, j, sum) ==
    IF j >= l THEN sum
    ELSE MaskSum(tmp, l, i, j + 1,
                 Xor(sum,
                     IF j % 8 = 0 THEN Xor(tmp[((i + j) % l) + 1], 255)
                     ELSE RotateLeft8(tmp[((i + j) % l) + 1],
                                      IF AndBits(j, 10) # 0 THEN 0 - (j % 8)
                                      ELSE j % 8)))

\* the copy tmp of createMask: b, or b[i] + byte(i+1) when all b are equal
MaskTmp(b) ==
    IF \E i \in 2..Len(b) : b[i] # b[1] THEN b
    ELSE Tup([i \in 1..Len(b) |-> (b[i] + i) % 256])

\* the rotate-and-XOR loop of createMask
MaskOf(b, tmp) == Tup([i \in 1..Len(b) |-> MaskSum(tmp, Len(b), i - 1, 1, b[i])])

\* ShakePRNG.createMask: the contents of b after the call
createMask(b) == IF Len(b) = 0 THEN b ELSE MaskOf(b, MaskTmp(b))

\* NeedReseed comparing one too far
NeedReseedLate(s) == s.counter > ReseedInterval + 1

\* ShakePRNG.NeedReseed
NeedReseed(s) == s.counter > ReseedInterval

\* the fields of a destroyed instance
Destroyed(s) ==
    [s EXCEPT !.c = Nil, !.rate = 0, !.seedLen = 0, !.counter = 0, !.nw = 0]

\* ShakePRNG.Destroy: s.c.Reset() on a nil interface panics
DestroyOp(s) ==
    IF s.c = Nil THEN [ret |-> "panic", s |-> s]
    ELSE [ret |-> "ok", s |-> Destroyed(s)]

\* Reseed forgetting s.counter = 0
ReseedDoneKeepsCounter(s, w) ==
    IF w.st = "panic" THEN [ret |-> "panic", s |-> s]
    ELSE IF w.st = "err" THEN [ret |-> "internal", s |-> Destroyed(s)]
    ELSE [ret |-> "ok", s |-> [s EXCEPT !.c = w.c, !.nw = w.nw]]

\* Reseed after its writeWithPad w
ReseedDone(s, w) ==
    IF w.st = "panic" THEN [ret |-> "panic", s |-> s]
    ELSE IF w.st = "err" THEN [ret |-> "internal", s |-> Destroyed(s)]
    ELSE [ret |-> "ok", s |-> [s EXCEPT !.c = w.c, !.nw = w.nw, !.counter = 0]]

\* Reseed clearing the counter before it checks the seed
ReseedOpClearsFirst(s, seed) ==
    IF Len(seed) < s.seedLen \div 2
    THEN [ret |-> "validation", s |-> [s EXCEPT !.counter = 0]]
    ELSE IF Len(seed) > MaxInputLength
    THEN [ret |-> "validation", s |-> [s EXCEPT !.counter = 0]]
    ELSE ReseedDone(s, writeWithPad(s, s.c, seed, getStartFrom(s, seed)))

\* Reseed rejecting a seed of exactly seedLen/2 bytes
ReseedOpOffByOne(s, seed) ==
    IF Len(seed) <= s.seedLen \div 2 THEN [ret |-> "validation", s |-> s]
    ELSE IF Len(seed) > MaxInputLength THEN [ret |-> "validation", s |-> s]
    ELSE ReseedDone(s, writeWithPad(s, s.c, seed, getStartFrom(s, seed)))

\* ShakePRNG.Reseed: [ret, s]
ReseedOp(s, seed) ==
    IF Len(seed) < s.seedLen \div 2 THEN [ret |-> "validation", s |-> s]
    ELSE IF Len(seed) > MaxInputLength THEN [ret |-> "validation", s |-> s]
    ELSE ReseedDone(s, writeWithPad(s, s.c, seed, getStartFrom(s, seed)))

\* Reset without s.nw = 0
ResetOpKeepsNw(s, seed) ==
    IF s.c = Nil THEN [ret |-> "panic", s |-> s]
    ELSE ReseedOp([s EXCEPT !.c = StateReset(s.c)], seed)

\* ShakePRNG.Reset: s.c.Reset(); s.nw = 0; return s.Reseed(seed)
ResetOp(s, seed) ==
    IF s.c = Nil THEN [ret |-> "panic", s |-> s]
    ELSE ReseedOp([s EXCEPT !.c = StateReset(s.c), !.nw = 0], seed)

\* a zero ShakePRNG (var drbg ShakePRNG)
ZeroPRNG == [c |-> Nil, rate |-> 0, seedLen |-> 0, counter |-> 0, nw |-> 0]

\* NewShakeDRBG after drbg.Reset(seed): the instance, or nil and an error
NewShakeDRBGDone(r) ==
    IF r.ret # "ok" THEN [ret |-> r.ret, s |-> ZeroPRNG, made |-> FALSE]
    ELSE [ret |-> "ok", s |-> r.s, made |-> TRUE]

\* NewShakeDRBG: [ret, s, made]; made = FALSE is a nil *ShakePRNG
NewShakeDRBGOp(bits, seed) ==
    IF bits = 128
    THEN NewShakeDRBGDone(ResetOp(
             [ZeroPRNG EXCEPT !.seedLen = RecommendedKMAC128KeyTagSize,
                              !.c = NewShake128, !.rate = rate128], seed))
    ELSE IF bits = 256
    THEN NewShakeDRBGDone(ResetOp(
             [ZeroPRNG EXCEPT !.seedLen = RecommendedKMAC256KeyTagSize,
                              !.c = NewShake256, !.rate = rate256], seed))
    ELSE [ret |-> "unsupported", s |-> ZeroPRNG, made |-> FALSE]

\* the replay loop writing no zero block
ZeroBlocksSkipped(w, rate, nq) ==
    IF ~w.ok THEN [ok |-> FALSE, c |-> StateReset(w.c), nq |-> nq]
    ELSE [ok |-> TRUE, c |-> w.c, nq |-> 0]

RECURSIVE ZeroBlocks(_, _, _)
\* the loop "for ; nq > 0; nq-- { dup.Write(cBuf) }": [ok, c, nq] at its exit
ZeroBlocks(w, rate, nq) ==
    IF ~w.ok THEN [ok |-> FALSE, c |-> StateReset(w.c), nq |-> nq]
    ELSE IF nq <= 0 THEN [ok |-> TRUE, c |-> w.c, nq |-> nq]
    ELSE ZeroBlocks(Write(w.c, Zeros(rate)), rate, nq - 1)

\* buf with buf[offset : offset+len(b)] (0-based) overwritten by b
Overwrite(buf, offset, b) ==
    Tup([i \in 1..Len(buf) |->
            IF i > offset /\ i <= offset + Len(b) THEN b[i - offset] ELSE buf[i]])

\* a copy that leaves the last byte of out as it was
CopyShort(out, buf) ==
    Tup([i \in 1..Len(out) |->
            IF i <= Len(buf) /\ i < Len(out) THEN buf[i] ELSE out[i]])

\* copy(out, buf): the first min(len(out), len(buf)) bytes of out
Copy(out, buf) ==
    Tup([i \in 1..Len(out) |-> IF i <= Len(buf) THEN buf[i] ELSE out[i]])

\* b := buf[offset : offset+nClear]
RemixWindow(buf, offset) == SubSeq(buf, offset + 1, offset + nClear)

\* what Generate returns: [ret, s, out, sq, scratch].  out is the caller's
\* buffer after the call; sq is the context the output was squeezed from
\* (before its Read) and scratch the scratch buffer after the remix, Nil and
\* empty when the call returned before squeezing.  A call that got as far
\* also has read (the original context after its Read), fork (dup after the
\* replay of the reads, before the window is written) and offset (of the
\* window in the scratch buffer).
GenerateQuit(r, t, o) ==
    [ret |-> r, s |-> t, out |-> o, sq |-> Nil, scratch |-> <<>>]

\* Generate handing the caller the scratch buffer's memory: the remix shows
GenerateDoneAliased(s1, out1, buf2, wm) ==
    IF wm.st = "err" THEN GenerateQuit("internal", Destroyed(s1), out1)
    ELSE [ret |-> "ok",
          s   |-> [s1 EXCEPT !.c = wm.c, !.nw = wm.nw,
                             !.counter = s1.counter + 1],
          out |-> Copy(out1, buf2), sq |-> s1.c, scratch |-> buf2]

\* Generate forgetting s.c = dup: the context it squeezed from stays live
GenerateDoneKeepsContext(s1, out1, buf2, wm) ==
    IF wm.st = "err" THEN GenerateQuit("internal", Destroyed(s1), out1)
    ELSE [ret |-> "ok",
          s   |-> [s1 EXCEPT !.nw = wm.nw, !.counter = s1.counter + 1],
          out |-> out1, sq |-> s1.c, scratch |-> buf2]

\* Generate, end: s.c.Reset(); s.c = dup; s.counter++
GenerateDone(s1, out1, buf2, wm) ==
    IF wm.st = "err" THEN GenerateQuit("internal", Destroyed(s1), out1)
    ELSE [ret |-> "ok",
          s   |-> [s1 EXCEPT !.c = wm.c, !.nw = wm.nw,
                             !.counter = s1.counter + 1],
          out |-> out1, sq |-> s1.c, scratch |-> buf2]

\* Generate, the remixed window b written into dup with writeWithPad
GenerateMasked(s1, out1, buf, dup, start, offset, b) ==
    GenerateDone(s1, out1, Overwrite(buf, offset, b),
                 writeWithPad(s1, dup, b, start))

\* Generate, the window: offset := nq*s.rate + start; createMask(b)
GenerateWindow(s1, out1, buf, zb, start) ==
    GenerateMasked(s1, out1, buf, zb.c, start, zb.nq * s1.rate + start,
                   createMask(RemixWindow(buf, zb.nq * s1.rate + start)))
        @@ [fork |-> zb.c, offset |-> zb.nq * s1.rate + start]

\* Generate, after the replay of the reads on dup (zb: result of the loop)
GenerateReplayed(s1, out1, buf, zb) ==
    IF ~zb.ok THEN GenerateQuit("internal", Destroyed(s1), out1)
    ELSE GenerateWindow(s1, out1, buf, zb,
                        getStartFrom(s1, buf) % (s1.rate - nClear - 1))

\* Generate, after s.c.Read(buf): copy(out, buf), then the 10*01 pad and
\* nr/rate zero blocks written to dup
GenerateRead(s1, out, dup, buf) ==
    GenerateReplayed(s1, Copy(out, buf), buf,
        ZeroBlocks(Write(dup, gen10x01Pad(s1.rate)), s1.rate,
                   Len(buf) \div s1.rate))

\* Generate, after s.c.Read(buf) returned rd, dup being the clone
GenerateSqueezed(s1, out, dup, rd) ==
    GenerateRead(s1, out, dup, rd.out) @@ [read |-> rd.c]

\* a scratch buffer sized from the quotient rounded up
ScratchLenCeil(lo, rate) == (((lo + rate - 1) \div rate) + 1) * rate - 1

\* the length of Generate's scratch buffer: ((lo/s.rate)+1)*s.rate - 1
ScratchLen(lo, rate) == ((lo \div rate) + 1) * rate - 1

\* Generate, after the additional input: dup := s.c.Clone(), then the Read
\* of ((lo/rate)+1)*rate - 1 bytes
GenerateSqueeze(s1, out) ==
    IF s1.c = Nil THEN GenerateQuit("panic", s1, out)
    ELSE GenerateSqueezed(s1, out, Clone(s1.c),
             Read(s1.c, ScratchLen(Len(out), s1.rate)))

\* Generate, after writeWithPad(s.c, additionalIn, ...) returned w
GenerateAbsorbed(s, out, w) ==
    IF w.st = "panic" THEN GenerateQuit("panic", s, out)
    ELSE IF w.st = "err" THEN GenerateQuit("internal", Destroyed(s), out)
    ELSE GenerateSqueeze([s EXCEPT !.c = w.c, !.nw = w.nw], out)

\* ShakePRNG.Generate
GenerateOp(s, out, additionalIn) ==
    IF NeedReseed(s) THEN GenerateQuit("ErrDRBGReseed", s, out)
    ELSE IF Len(out) > MaxInputLength THEN GenerateQuit("validation", s, out)
    ELSE IF Len(out) = 0 THEN GenerateQuit("validation", s, out)
    ELSE IF Len(additionalIn) > MaxInputLength
         THEN GenerateQuit("validation", s, out)
    ELSE GenerateAbsorbed(s, out,
             writeWithPad(s, s.c, additionalIn, getStartFrom(s, additionalIn)))

(***************************************************************************)
(* The caller: one *ShakePRNG driven through its public operations         *)
(***************************************************************************)
VARIABLES
    s,       \* the fields of the ShakePRNG
    made,    \* TRUE once NewShakeDRBG has returned an instance
    out,     \* the caller's out buffer after the last call
    call,    \* the last call: [op, bits, data, buf]
    ret,     \* its result
    steps,   \* calls made so far
    gens,    \* history: successful Generate calls since the last successful
             \* Reseed (or since creation)
    lastSq,  \* history: what the last successful Generate squeezed from
    cleared, \* history: the counter the last successful Reseed reset, or -1
             \* (none since creation or the last Reset)
    twin,    \* a second instance the caller drives with the same calls:
             \* [on, s, out, ret]; on is FALSE where the caller has only one
    seeded,  \* history: TRUE when the live context has absorbed an accepted
             \* seed since it was last reset to empty
    trace,   \* history: the inside of the last successful Generate
    lab      \* the hash contexts and byte strings of the runs that exercise
             \* shake.go alone

vars ==
    <<s, made, out, call, ret, steps, gens, lastSq, cleared, twin, seeded,
      trace, lab>>

\* bounds of the exploration
MaxCalls == 3
MaxCallsLong == 6
MaxCallsPair == 4

NoSqueeze == [has |-> FALSE, hist |-> <<>>]
NoTrace == [has |-> FALSE]
NoLab == [op |-> "none"]

\* byte strings of main.go
MainSeed ==
    <<116,101,115,116,32,116,104,105,115,32,111,117,116,33,32,121,111,117,32,
      110,101,101,100,32,116,111,32,104,97,118,101,32,101,110,111,117,103,104,
      32,105,110,112,117,116,115,32,105,110,32,116,104,101,32,115,101,101,100,
      33>>
MainAdditionalIn == <<116,101,115,116,32,109,101,33>>
MainOutLen == 150

\* an n-byte input / an n-byte buffer the caller hands in
Pattern(n) == Tup([i \in 1..n |-> (7 * i + n) % 256])
OutBuf(n) == Tup([i \in 1..n |-> 238])
\* the buffer the twin is handed for the same request: as long, other bytes
TwinBuf(o) == Tup([i \in 1..Len(o) |-> 17])

Min128 == RecommendedKMAC128KeyTagSize \div 2
Min256 == RecommendedKMAC256KeyTagSize \div 2

\* NewShakeDRBG's arguments <<bits, seed>>: each strength at both edges of
\* its shortest seed, the longest seed and one past it, an unsupported size
NewArgs ==
    {<<128, Pattern(Min128 - 1)>>, <<128, Pattern(Min128)>>,
     <<256, Pattern(Min256 - 1)>>, <<256, Pattern(Min256)>>,
     <<256, Pattern(MaxInputLength)>>, <<256, Pattern(MaxInputLength + 1)>>,
     <<128, Pattern(MaxInputLength + 1)>>, <<192, Pattern(Min256)>>,
     <<256, <<>>>>}
SeedArgs ==
    {Pattern(n) : n \in {0, Min128 - 1, Min128, Min256 - 1, Min256,
                         MaxInputLength + 1}}
\* Generate's arguments <<out, additionalIn>>: main.go's request and the
\* longest one, with and without additional input, and the rejected ones
GenerateArgs ==
    {<<OutBuf(MainOutLen), MainAdditionalIn>>, <<OutBuf(MainOutLen), <<>>>>,
     <<OutBuf(MaxInputLength), MainAdditionalIn>>,
     <<OutBuf(MaxInputLength), <<>>>>,
     <<OutBuf(0), MainAdditionalIn>>, <<OutBuf(MaxInputLength + 1), <<>>>>,
     <<OutBuf(MainOutLen), Pattern(MaxInputLength + 1)>>}

\* the arguments of the long runs (main.go's, and rejected ones)
LongNewArgs == {<<256, MainSeed>>}
LongSeedArgs == {MainSeed, Pattern(Min256 - 1)}
LongGenerateArgs ==
    {<<OutBuf(MainOutLen), MainAdditionalIn>>, <<OutBuf(0), MainAdditionalIn>>,
     <<OutBuf(MaxInputLength + 1), Pattern(MaxInputLength + 1)>>}

\* the arguments of the paired runs
PairNewArgs == {<<128, Pattern(Min128)>>, <<256, MainSeed>>}
PairSeedArgs == {Pattern(Min256), Pattern(Min128 - 1)}
PairGenerateArgs ==
    {<<OutBuf(MainOutLen), MainAdditionalIn>>, <<OutBuf(MaxInputLength), <<>>>>,
     <<OutBuf(0), MainAdditionalIn>>}

Start(paired) ==
    /\ s = ZeroPRNG
    /\ made = FALSE
    /\ out = <<>>
    /\ call = [op |-> "none", bits |-> 0, data |-> <<>>, buf |-> <<>>]
    /\ ret = "none"
    /\ steps = 0
    /\ gens = 0
    /\ lastSq = NoSqueeze
    /\ cleared = -1
    /\ twin = [on |-> paired, s |-> ZeroPRNG, out |-> <<>>, ret |-> "none"]
    /\ seeded = FALSE
    /\ trace = NoTrace
    /\ lab = NoLab

Init == Start(FALSE)
InitPair == Start(TRUE)

\* the twin after the same call returned r to it
Twinned(r, o) == [on |-> TRUE, s |-> r.s, out |-> o, ret |-> r.ret]

\* an unrecovered panic ends the program, and so does a failed creation
Running(max) == steps < max /\ ret # "panic"

NewShakeDRBGReturns(r) ==
    /\ s' = r.s
    /\ made' = r.made
    /\ ret' = r.ret
    /\ seeded' = r.made

NewShakeDRBG(max, bits, seed) ==
    /\ Running(max) /\ ~made /\ ret = "none"
    /\ NewShakeDRBGReturns(NewShakeDRBGOp(bits, seed))
    /\ call' = [op |-> "NewShakeDRBG", bits |-> bits, data |-> seed, buf |-> <<>>]
    /\ steps' = steps + 1
    /\ twin' = IF twin.on THEN Twinned(NewShakeDRBGOp(bits, seed), twin.out)
                ELSE twin
    /\ UNCHANGED <<out, gens, lastSq, cleared, trace, lab>>

TwinGenerated(r) == Twinned(r, r.out)

GenerateReturns(r) ==
    /\ s' = r.s
    /\ out' = r.out
    /\ ret' = r.ret
    /\ gens' = IF r.ret = "ok" THEN gens + 1 ELSE gens
    /\ lastSq' = IF r.ret = "ok" THEN [has |-> TRUE, hist |-> r.sq.hist]
                 ELSE lastSq
    /\ trace' = IF r.ret = "ok"
                THEN [has |-> TRUE, lo |-> Len(r.out), rate |-> r.s.rate,
                      nr |-> Len(r.scratch), offset |-> r.offset,
                      sq |-> r.sq, read |-> r.read, fork |-> r.fork]
                ELSE trace

Generate(max, o, additionalIn) ==
    /\ Running(max) /\ made
    /\ GenerateReturns(GenerateOp(s, o, additionalIn))
    /\ call' = [op |-> "Generate", bits |-> 0, data |-> additionalIn, buf |-> o]
    /\ steps' = steps + 1
    /\ twin' = IF twin.on
                THEN TwinGenerated(GenerateOp(twin.s, TwinBuf(o), additionalIn))
                ELSE twin
    /\ UNCHANGED <<made, cleared, seeded, lab>>

ReseedReturns(r) ==
    /\ s' = r.s
    /\ ret' = r.ret
    /\ gens' = IF r.ret = "ok" THEN 0 ELSE gens
    /\ cleared' = IF r.ret = "ok" THEN s.counter ELSE cleared
    /\ seeded' = (seeded \/ (r.ret = "ok" /\ r.s.c # Nil))

Reseed(max, seed) ==
    /\ Running(max) /\ made
    /\ ReseedReturns(ReseedOp(s, seed))
    /\ call' = [op |-> "Reseed", bits |-> 0, data |-> seed, buf |-> <<>>]
    /\ steps' = steps + 1
    /\ twin' = IF twin.on THEN Twinned(ReseedOp(twin.s, seed), twin.out)
                ELSE twin
    /\ UNCHANGED <<made, out, lastSq, trace, lab>>

ResetReturns(r) ==
    /\ s' = r.s
    /\ ret' = r.ret
    /\ gens' = IF r.ret = "ok" THEN 0 ELSE gens
    /\ lastSq' = IF r.ret = "panic" THEN lastSq ELSE NoSqueeze
    /\ cleared' = IF r.ret = "panic" THEN cleared ELSE -1
    /\ seeded' = IF r.ret = "panic" THEN seeded ELSE r.ret = "ok"

Reset(max, seed) ==
    /\ Running(max) /\ made
    /\ ResetReturns(ResetOp(s, seed))
    /\ call' = [op |-> "Reset", bits |-> 0, data |-> seed, buf |-> <<>>]
    /\ steps' = steps + 1
    /\ twin' = IF twin.on THEN Twinned(ResetOp(twin.s, seed), twin.out)
                ELSE twin
    /\ UNCHANGED <<made, out, trace, lab>>

DestroyReturns(r) ==
    /\ s' = r.s
    /\ ret' = r.ret

Destroy(max) ==
    /\ Running(max) /\ made
    /\ DestroyReturns(DestroyOp(s))
    /\ call' = [op |-> "Destroy", bits |-> 0, data |-> <<>>, buf |-> <<>>]
    /\ steps' = steps + 1
    /\ twin' = IF twin.on THEN Twinned(DestroyOp(twin.s), twin.out) ELSE twin
    /\ UNCHANGED <<made, out, gens, lastSq, cleared, seeded, trace, lab>>

QueryNeedReseed(max) ==
    /\ Running(max) /\ made
    /\ ret' = IF NeedReseed(s) THEN "true" ELSE "false"
    /\ call' = [op |-> "NeedReseed", bits |-> 0, data |-> <<>>, buf |-> <<>>]
    /\ steps' = steps + 1
    /\ twin' = IF twin.on
                THEN [twin EXCEPT !.ret = IF NeedReseed(twin.s) THEN "true"
                                          ELSE "false"]
                ELSE twin
    /\ UNCHANGED <<s, made, out, gens, lastSq, cleared, seeded, trace, lab>>

Next ==
    \/ \E a \in NewArgs : NewShakeDRBG(MaxCalls, a[1], a[2])
    \/ \E a \in GenerateArgs : Generate(MaxCalls, a[1], a[2])
    \/ \E seed \in SeedArgs : Reseed(MaxCalls, seed)
    \/ \E seed \in SeedArgs : Reset(MaxCalls, seed)
    \/ Destroy(MaxCalls)
    \/ QueryNeedReseed(MaxCalls)

Spec == Init /\ [][Next]_vars

NextLong ==
    \/ \E a \in LongNewArgs : NewShakeDRBG(MaxCallsLong, a[1], a[2])
    \/ \E a \in LongGenerateArgs : Generate(MaxCallsLong, a[1], a[2])
    \/ \E seed \in LongSeedArgs : Reseed(MaxCallsLong, seed)
    \/ \E seed \in LongSeedArgs : Reset(MaxCallsLong, seed)
    \/ Destroy(MaxCallsLong)
    \/ QueryNeedReseed(MaxCallsLong)

SpecLong == Init /\ [][NextLong]_vars

\* two instances made with the same arguments and driven by the same calls
NextPair ==
    \/ \E a \in PairNewArgs : NewShakeDRBG(MaxCallsPair, a[1], a[2])
    \/ \E a \in PairGenerateArgs : Generate(MaxCallsPair, a[1], a[2])
    \/ \E seed \in PairSeedArgs : Reseed(MaxCallsPair, seed)

SpecPair == InitPair /\ [][NextPair]_vars

(***************************************************************************)
(* shake.go alone: a cSHAKE context beside a plain SHAKE one, and bytepad  *)
(***************************************************************************)
MaxLabCalls == 3

\* customisation strings, data to absorb, lengths to squeeze, pad widths
LabStrings == {<<>>, <<65>>, <<83, 72, 65>>}
LabData == {<<1, 2, 3>>, Pattern(rate256), Pattern(rate128 + 1)}
LabReads == {1, 32, rate128}
LabWidths == {1, 2, 3, 4, 8, rate256, rate128}
LabInputs ==
    {Pattern(n) : n \in {0, 1, 2, 3, 4, 5, 6, 7, rate256 - 3, rate256 - 2,
                         rate128 - 2, rate128 - 1}}

\* plain SHAKE of the same rate
PlainShake(rate) == IF rate = rate128 THEN NewShake128 ELSE NewShake256

Idle == UNCHANGED <<s, made, out, call, ret, gens, lastSq, cleared, twin,
                    seeded, trace>>

\* lab after Read returned rc from the cSHAKE context and rp from the plain
LabReadDone(rc, rp) ==
    [lab EXCEPT !.op = "Read", !.cs.state = rc.c, !.ps = rp.c,
                !.outC = lab.outC \o rc.out, !.outP = lab.outP \o rp.out]

\* lab after Write returned wc from the cSHAKE context and wp from the plain
LabWriteDone(wc, wp) ==
    [lab EXCEPT !.op = "Write", !.cs.state = wc.c, !.ps = wp.c]

LabNewCShake(N, S, rate, dsbyte) ==
    /\ lab.op = "none" /\ steps < MaxLabCalls
    /\ lab' = [op |-> "newCShake", N |-> N, S |-> S,
               cs |-> newCShake(N, S, rate, dsbyte), ps |-> PlainShake(rate),
               outC |-> <<>>, outP |-> <<>>]
    /\ steps' = steps + 1
    /\ Idle

LabWrite(p) ==
    /\ lab.op \in {"newCShake", "Write", "Reset"} /\ steps < MaxLabCalls
    /\ lab' = LabWriteDone(Write(lab.cs.state, p), Write(lab.ps, p))
    /\ steps' = steps + 1
    /\ Idle

LabRead(n) ==
    /\ lab.op \in {"newCShake", "Write", "Read", "Reset"}
    /\ steps < MaxLabCalls
    /\ lab' = LabReadDone(Read(lab.cs.state, n), Read(lab.ps, n))
    /\ steps' = steps + 1
    /\ Idle

LabReset ==
    /\ lab.op \in {"newCShake", "Write", "Read"} /\ steps < MaxLabCalls
    /\ lab' = [lab EXCEPT !.op = "Reset", !.cs = cshakeReset(lab.cs),
                          !.ps = StateReset(lab.ps),
                          !.outC = <<>>, !.outP = <<>>]
    /\ steps' = steps + 1
    /\ Idle

LabBytepad(input, w) ==
    /\ lab.op = "none" /\ steps < MaxLabCalls
    /\ lab' = [op |-> "bytepad", input |-> input, w |-> w,
               padded |-> bytepad(input, w)]
    /\ steps' = steps + 1
    /\ Idle

NextShake ==
    \/ \E N \in LabStrings, S \in LabStrings, rate \in {rate128, rate256},
          dsbyte \in {dsbyteShake, dsbyteCShake} :
            LabNewCShake(N, S, rate, dsbyte)
    \/ \E p \in LabData : LabWrite(p)
    \/ \E n \in LabReads : LabRead(n)
    \/ LabReset
    \/ \E input \in LabInputs, w \in LabWidths : LabBytepad(input, w)

SpecShake == Init /\ [][NextShake]_vars

(***************************************************************************)
(* Properties                                                              *)
(***************************************************************************)
\* the results that are an error returned to the caller
ErrorRets == {"validation", "ErrDRBGReseed", "unsupported", "internal"}

IsPrefix(x, y) == Len(x) <= Len(y) /\ SubSeq(y, 1, Len(x)) = x
IsStrictPrefix(x, y) == Len(x) < Len(y) /\ SubSeq(y, 1, Len(x)) = x

\* C1: once the instance is destroyed, every Generate and every Reseed
\* returns an error: none succeeds and none panics.
C1_DestroyedRejectsAll ==
    [][(made /\ s.c = Nil /\ call'.op \in {"Generate", "Reseed"})
          => ret' \in ErrorRets]_vars

\* C2: Destroy always completes normally and leaves the context reference
\* dropped and rate, seedLen, counter and nw zero, also on a destroyed
\* instance.
C2_DestroyIdempotent ==
    call.op = "Destroy"
        => (ret = "ok" /\ s.c = Nil /\ s.rate = 0 /\ s.seedLen = 0
            /\ s.counter = 0 /\ s.nw = 0)

\* C3: between two successful Reseed calls (or since creation) at most
\* ReseedInterval Generate calls succeed.
C3_AtMostReseedIntervalGenerates == gens <= ReseedInterval

C5_ReseedClearsTheCondition ==
    [][/\ (made /\ s.c # Nil /\ call'.op = "Reseed" /\ ret' = "ok")
            => (s'.counter = 0 /\ ~(s'.counter > ReseedInterval))
       /\ (/\ call.op = "Reseed" /\ ret = "ok" /\ s.c # Nil
           /\ call'.op = "Generate"
           /\ Len(call'.buf) > 0 /\ Len(call'.buf) <= MaxInputLength
           /\ Len(call'.data) <= MaxInputLength)
            => ret' = "ok"]_vars

C5_Witness ==
    /\ call.op = "Generate" /\ ret = "ok" /\ gens = 1
    /\ cleared > ReseedInterval

C7_FactoryAcceptance ==
    call.op = "NewShakeDRBG" =>
        LET n    == Len(call.data)
            good == \/ call.bits = 128 /\ 16 <= n /\ n <= MaxInputLength
                    \/ call.bits = 256 /\ 32 <= n /\ n <= MaxInputLength
        IN  /\ made <=> good
            /\ (ret = "ok") <=> good
            /\ ~good => (ret \in ErrorRets /\ s = ZeroPRNG)
            /\ good => /\ s.c # Nil /\ s.c.dir = "absorbing"
                       /\ s.seedLen = (IF call.bits = 128 THEN 32 ELSE 64)
                       /\ s.rate = (IF call.bits = 128 THEN 168 ELSE 136)
                       /\ s.c.rate = s.rate
                       /\ s.counter = 0

C7_Witness ==
    /\ call.op = "NewShakeDRBG" /\ call.bits = 256 /\ Len(call.data) = 32
    /\ made /\ ret = "ok"

\* C8: a successful Generate fills the whole of out with the first len(out)
\* bytes squeezed from the live context as it stands after the pre-padded
\* absorb of additionalIn; the remix of the scratch buffer does not show.
C8_OutputIsTheSqueezedPrefix ==
    [][(call'.op = "Generate" /\ ret' = "ok")
          => \A d \in {call'.data}, o \in {out'} :
                /\ Len(o) = Len(call'.buf)
                /\ o = Read(writeWithPad(s, s.c, d, getStartFrom(s, d)).c,
                            Len(o)).out]_vars

C8_Witness ==
    /\ call.op = "Generate" /\ ret = "ok" /\ Len(call.data) > 0
    /\ Len(out) = MaxInputLength /\ out # call.buf

\* C9: a successful Generate adds 1 to counter and leaves a live context
\* whose absorbed history strictly extends that of the context it squeezed
\* from, so with no Reset in between the next Generate squeezes from a
\* context with a strictly longer history.
C9_StateEvolvesEveryCall ==
    [][(call'.op = "Generate" /\ ret' = "ok")
          => /\ s'.counter = s.counter + 1
             /\ lastSq'.has
             /\ IsPrefix(s.c.hist, lastSq'.hist)
             /\ IsStrictPrefix(lastSq'.hist, s'.c.hist)
             /\ lastSq.has => IsStrictPrefix(lastSq.hist, lastSq'.hist)]_vars

C9_Witness ==
    /\ call.op = "Generate" /\ ret = "ok" /\ lastSq.has
    /\ s.counter = 2 /\ gens = 2

Active == made /\ s.c # Nil

\* C11: whenever Generate returns success, the context it squeezed from has
\* absorbed an accepted seed since it was last reset to empty; no sequence
\* of calls, a Reset that returns an error included, leaves an active
\* instance generating from an unseeded hash state.
C11_GeneratesOnlyWhenSeeded ==
    (call.op = "Generate" /\ ret = "ok") => seeded

\* C12: the fork replays the permutations of the original: after the pad
\* block and one zero block per full rate block of the scratch buffer it
\* has run 1 + floor(len(scratch)/rate) permutations since the clone, as
\* many as the original while squeezing, and its lanes equal the
\* original's lanes after the squeeze.
C12_ForkReplaysTheSqueeze ==
    trace.has
        => /\ trace.fork.perms
                = trace.sq.perms + 1 + (trace.nr \div trace.rate)
           /\ trace.read.perms = trace.fork.perms
           /\ trace.fork.a = trace.read.a
           /\ Len(trace.fork.buf) = 0

C12_Witness ==
    /\ trace.has /\ trace.rate = rate128 /\ trace.nr \div trace.rate >= 1
    /\ trace.fork.a = trace.read.a /\ trace.fork.a # trace.sq.a

\* C13: the 25-byte remix window lies within the last (rate-1)-byte chunk
\* of the scratch buffer: offset >= floor(len(scratch)/rate)*rate and
\* offset + 25 <= len(scratch).
C13_WindowInLastChunk ==
    trace.has
        => /\ trace.offset >= (trace.nr \div trace.rate) * trace.rate
           /\ trace.offset + nClear <= trace.nr

\* C14 (as stated): Generate squeezes (ceil(len(out)/rate)+1)*rate - 1 bytes
\* into the scratch buffer.
C14_ScratchLenCeiling ==
    trace.has
        => trace.nr
             = (((trace.lo + trace.rate - 1) \div trace.rate) + 1) * trace.rate
                 - 1

\* C14: Generate squeezes exactly (floor(len(out)/rate)+1)*rate - 1 bytes
\* from the original context into the scratch buffer, which leaves one
\* byte of the last squeezed block unread and holds at least len(out)
\* bytes.
C14_ScratchLenFloor ==
    trace.has
        => /\ trace.nr = ((trace.lo \div trace.rate) + 1) * trace.rate - 1
           /\ trace.nr >= trace.lo
           /\ Len(trace.read.buf) = 1
           /\ trace.read.dir = "squeezing"

C14_Witness ==
    /\ trace.has /\ trace.lo = MainOutLen /\ trace.rate = rate256
    /\ trace.nr = 2 * rate256 - 1

\* C15: on an active instance the live context is absorbing after every
\* call, no call fails for an internal absorb error, and the context is
\* dropped only by an explicit Destroy.
C15_SpongeDiscipline ==
    [][/\ (made' /\ s'.c # Nil) => s'.c.dir = "absorbing"
       /\ ret' # "internal"
       /\ (Active /\ s'.c = Nil) => call'.op = "Destroy"]_vars

C15_Witness ==
    /\ call.op = "Generate" /\ ret = "ok" /\ Len(call.data) > 0
    /\ gens = 2 /\ Active /\ s.c.dir = "absorbing" /\ trace.read.dir = "squeezing"

\* C16: a writeWithPad of non-empty data absorbs a whole number (>= 1) of
\* rate blocks and so runs at least one permutation, one of empty data
\* absorbs nothing; the live context of an active instance is at a rate
\* boundary after every call.
C16_WholeBlocksOnly ==
    [][/\ (made' /\ s'.c # Nil)
            => /\ Len(s'.c.buf) = 0
               /\ Len(s'.c.hist) = s'.c.perms * s'.rate
       /\ (Active /\ call'.op = "Reseed" /\ ret' = "ok")
            => /\ Len(s'.c.hist) >= Len(s.c.hist) + s.rate
               /\ s'.c.perms >= s.c.perms + 1
       /\ (call'.op = "Generate" /\ ret' = "ok")
            => /\ IF Len(call'.data) = 0 THEN trace'.sq = s.c
                  ELSE /\ Len(trace'.sq.hist) >= Len(s.c.hist) + s.rate
                       /\ trace'.sq.perms >= s.c.perms + 1
                       /\ Len(trace'.sq.buf) = 0
               /\ Len(s'.c.hist) >= Len(trace'.fork.hist) + s.rate
               /\ s'.c.perms >= trace'.fork.perms + 1]_vars

C16_Witness ==
    /\ call.op = "Generate" /\ ret = "ok" /\ Len(call.data) = 0
    /\ Active /\ Len(s.c.buf) = 0 /\ s.c.perms > trace.fork.perms

\* C17 (as stated): over Generate, Reseed and Reset calls on an active
\* instance nw never decreases and is never set back to 0.
C17_NwNeverDecreases ==
    [][(Active /\ call'.op \in {"Generate", "Reseed", "Reset"})
          => (s'.nw >= s.nw /\ (s.nw > 0 => s'.nw > 0))]_vars

\* C17: over Generate and Reseed calls on an active instance nw never
\* decreases (it grows with every accepted non-empty absorb); Reset alone
\* sets it back to 0, and to 1 once its seed is absorbed.
C17_NwResetOnlyByReset ==
    [][/\ (Active /\ call'.op \in {"Generate", "Reseed"})
            => /\ s'.nw >= s.nw
               /\ ret' = "ok" => s'.nw > s.nw
       /\ (Active /\ call'.op = "Reset")
            => s'.nw = IF ret' = "ok" THEN 1 ELSE 0]_vars

C17_Witness ==
    /\ call.op = "Reset" /\ ret = "ok" /\ s.nw = 1 /\ trace.has

\* C18: after a successful Reset(seed) on an active instance, whatever its
\* history, the instance equals a freshly created NewShakeDRBG of the same
\* strength with that seed: hash state, counter 0, nw, rate and seedLen.
C18_ResetEqualsFresh ==
    [][(Active /\ call'.op = "Reset" /\ ret' = "ok")
          => \A fresh \in {NewShakeDRBGOp(IF s.rate = rate128 THEN 128
                                            ELSE 256, call'.data)} :
                 /\ fresh.ret = "ok"
                 /\ s' = fresh.s
                 /\ s'.counter = 0]_vars

C18_Witness ==
    /\ call.op = "Reset" /\ ret = "ok" /\ trace.has /\ steps >= 3
    /\ s.counter = 0 /\ Len(call.data) = Min256

\* C19: a context built by newCShake with empty N and S, and after each
\* Reset of it, has the sponge state of a plain SHAKE context of the same
\* rate put through the same calls, and has given the same output.
C19_EmptyCShakeIsShake ==
    (lab.op \in {"newCShake", "Write", "Read", "Reset"}
        /\ lab.N = <<>> /\ lab.S = <<>>)
        => /\ lab.cs.state.a = lab.ps.a
           /\ lab.cs.state.buf = lab.ps.buf
           /\ lab.cs.state.dir = lab.ps.dir
           /\ lab.outC = lab.outP

\* C20: bytepad(input, w) is leftEncode(w), then input, then only zero
\* bytes, as long as the smallest multiple of w that is at least
\* len(leftEncode(w)) + len(input): fewer than w pad bytes, none when the
\* unpadded length is already a multiple of w.
C20_BytepadToNextMultiple ==
    lab.op = "bytepad"
        => \A head \in {leftEncode(lab.w) \o lab.input} :
               /\ IsPrefix(head, lab.padded)
               /\ \A i \in (Len(head) + 1)..Len(lab.padded) : lab.padded[i] = 0
               /\ Len(lab.padded) % lab.w = 0
               /\ Len(lab.padded) - Len(head) < lab.w

====
